---------------------------- MODULE Spec2Model ----------------------------
(***************************************************************************)
(* Model of convert_ing_to_quicken.py: the conversion of an ING (Germany)  *)
(* CSV export into a Quicken CSV.                                          *)
(*                                                                         *)
(* A Python str is modelled as a sequence of characters.  A character is   *)
(* a one-character TLA+ string; a character outside ASCII is written by    *)
(* its code point ("U+00FC" is u-umlaut).                                  *)
(***************************************************************************)
EXTENDS Integers, Sequences, FiniteSets, TLC

(***************************************************************************)
(* Characters                                                              *)
(***************************************************************************)
NBSP == "U+00A0"
COMBINING_ACUTE == "U+0301"
COMBINING_DIAERESIS == "U+0308"
EURO == "U+20AC"
A_UML == "U+00C4"
O_UML == "U+00D6"
U_UML == "U+00DC"
a_uml == "U+00E4"
o_uml == "U+00F6"
u_uml == "U+00FC"
ESZETT == "U+00DF"
e_acute == "U+00E9"

\* The characters of the model that are not ASCII.
NonAscii ==
  {NBSP, COMBINING_ACUTE, COMBINING_DIAERESIS, EURO, A_UML, O_UML, U_UML,
   a_uml, o_uml, u_uml, ESZETT, e_acute}

IsAscii(c) == c \notin NonAscii

\* str.isspace(): what str.strip() and str.split() treat as whitespace.
IsSpace(c) == c \in {" ", "\t", "\n", "\r", NBSP}

Digits == {"0", "1", "2", "3", "4", "5", "6", "7", "8", "9"}

DigitVal(c) ==
  CASE c = "0" -> 0 [] c = "1" -> 1 [] c = "2" -> 2 [] c = "3" -> 3
    [] c = "4" -> 4 [] c = "5" -> 5 [] c = "6" -> 6 [] c = "7" -> 7
    [] c = "8" -> 8 [] c = "9" -> 9

DigitChar(n) ==
  CASE n = 0 -> "0" [] n = 1 -> "1" [] n = 2 -> "2" [] n = 3 -> "3"
    [] n = 4 -> "4" [] n = 5 -> "5" [] n = 6 -> "6" [] n = 7 -> "7"
    [] n = 8 -> "8" [] n = 9 -> "9"

UpperCase ==
  <<"A", "B", "C", "D", "E", "F", "G", "H", "I", "J", "K", "L", "M", "N",
     "O", "P", "Q", "R", "S", "T", "U", "V", "W", "X", "Y", "Z",
     A_UML, O_UML, U_UML>>

LowerCase ==
  <<"a", "b", "c", "d", "e", "f", "g", "h", "i", "j", "k", "l", "m", "n",
     "o", "p", "q", "r", "s", "t", "u", "v", "w", "x", "y", "z",
     a_uml, o_uml, u_uml>>

\* str.lower() on one character.
LowerChar(c) ==
  IF \E i \in 1..Len(UpperCase) : UpperCase[i] = c
  THEN LowerCase[CHOOSE i \in 1..Len(UpperCase) : UpperCase[i] = c]
  ELSE c

(***************************************************************************)
(* str methods                                                             *)
(***************************************************************************)
Lower(s) == [i \in 1..Len(s) |-> LowerChar(s[i])]

\* s[i:] with a 1-based first index.
DropTo(s, i) == SubSeq(s, i, Len(s))

StartsWith(s, p) == Len(s) >= Len(p) /\ SubSeq(s, 1, Len(p)) = p

\* p in s
Contains(s, p) ==
  \E i \in 1..(Len(s) - Len(p) + 1) : SubSeq(s, i, i + Len(p) - 1) = p

RECURSIVE LStrip(_)
LStrip(s) ==
  IF s # <<>> /\ IsSpace(Head(s)) THEN LStrip(Tail(s)) ELSE s

RECURSIVE RStrip(_)
RStrip(s) ==
  IF s # <<>> /\ IsSpace(s[Len(s)]) THEN RStrip(SubSeq(s, 1, Len(s) - 1)) ELSE s

\* str.strip()
Strip(s) == RStrip(LStrip(s))

\* str.split(sep) for a one-character separator: never empty, keeps empty fields.
RECURSIVE SplitOn(_, _)
SplitOn(s, sep) ==
  IF \A i \in 1..Len(s) : s[i] # sep
  THEN <<s>>
  ELSE LET k == CHOOSE i \in 1..Len(s) :
                  s[i] = sep /\ \A j \in 1..(i - 1) : s[j] # sep
       IN <<SubSeq(s, 1, k - 1)>> \o SplitOn(DropTo(s, k + 1), sep)

\* str.split(): the whitespace-separated words, none of them empty.
RECURSIVE SplitWords(_)
SplitWords(s) ==
  LET t == LStrip(s)
  IN IF t = <<>>
     THEN <<>>
     ELSE LET n == IF \E i \in 1..Len(t) : IsSpace(t[i])
                   THEN (CHOOSE i \in 1..Len(t) :
                           IsSpace(t[i]) /\ \A j \in 1..(i - 1) : ~IsSpace(t[j])) - 1
                   ELSE Len(t)
          IN <<SubSeq(t, 1, n)>> \o SplitWords(DropTo(t, n + 1))

\* sep.join(parts)
RECURSIVE Join(_, _)
Join(parts, sep) ==
  IF parts = <<>> THEN <<>>
  ELSE IF Len(parts) = 1 THEN parts[1]
  ELSE parts[1] \o sep \o Join(Tail(parts), sep)

\* The concatenation of a sequence of strings.
Concat(parts) == Join(parts, <<>>)

(***************************************************************************)
(* normalize_to_ascii                                                      *)
(***************************************************************************)
\* The replacements dict: one character's transliteration.
Replacement(c) ==
  CASE c = A_UML -> <<"A", "e">>
    [] c = O_UML -> <<"O", "e">>
    [] c = U_UML -> <<"U", "e">>
    [] c = a_uml -> <<"a", "e">>
    [] c = o_uml -> <<"o", "e">>
    [] c = u_uml -> <<"u", "e">>
    [] c = ESZETT -> <<"s", "s">>
    [] OTHER -> <<c>>

\* unicodedata.normalize("NFKD", c) for one character.
Nfkd(c) ==
  CASE c = e_acute -> <<"e", COMBINING_ACUTE>>
    [] c = A_UML -> <<"A", COMBINING_DIAERESIS>>
    [] c = O_UML -> <<"O", COMBINING_DIAERESIS>>
    [] c = U_UML -> <<"U", COMBINING_DIAERESIS>>
    [] c = a_uml -> <<"a", COMBINING_DIAERESIS>>
    [] c = o_uml -> <<"o", COMBINING_DIAERESIS>>
    [] c = u_uml -> <<"u", COMBINING_DIAERESIS>>
    [] c = NBSP -> <<" ">>
    [] OTHER -> <<c>>

\* text.encode("ascii", "ignore").decode("ascii")
AsciiIgnore(s) == SelectSeq(s, IsAscii)

ReplaceUmlauts(s) == Concat([i \in 1..Len(s) |-> Replacement(s[i])])

NfkdText(s) == Concat([i \in 1..Len(s) |-> Nfkd(s[i])])

\* A plausible slip: "".join instead of " ".join.
normalize_to_ascii_nosep(text) ==
  IF text = <<>> THEN <<>>
  ELSE Join(SplitWords(AsciiIgnore(NfkdText(ReplaceUmlauts(text)))), <<>>)

normalize_to_ascii(text) ==
  IF text = <<>> THEN <<>>
  ELSE Join(SplitWords(AsciiIgnore(NfkdText(ReplaceUmlauts(text)))), <<" ">>)

(***************************************************************************)
(* convert_date_ddmmyyyy_to_mmddyyyy                                       *)
(***************************************************************************)
AllDigits(s) == \A i \in 1..Len(s) : s[i] \in Digits

\* int(s) for a short string of digits.
RECURSIVE IntOf(_)
IntOf(s) ==
  IF s = <<>> THEN 0 ELSE 10 * IntOf(SubSeq(s, 1, Len(s) - 1)) + DigitVal(s[Len(s)])

\* The decimal digits of n >= 0, without padding.
RECURSIVE DecimalOf(_)
DecimalOf(n) ==
  IF n < 10 THEN <<DigitChar(n)>> ELSE DecimalOf(n \div 10) \o <<DigitChar(n % 10)>>

\* n written with at least w digits, zero-padded on the left.
RECURSIVE ZeroPad(_, _)
ZeroPad(s, w) == IF Len(s) >= w THEN s ELSE ZeroPad(<<"0">> \o s, w)

\* strptime's pattern for %d: 3[0-1]|[1-2]\d|0[1-9]|[1-9]| [1-9]
MatchesDay(s) ==
  \/ Len(s) = 2 /\ s[1] = "3" /\ s[2] \in {"0", "1"}
  \/ Len(s) = 2 /\ s[1] \in {"1", "2"} /\ s[2] \in Digits
  \/ Len(s) = 2 /\ s[1] = "0" /\ s[2] \in Digits \ {"0"}
  \/ Len(s) = 1 /\ s[1] \in Digits \ {"0"}
  \/ Len(s) = 2 /\ s[1] = " " /\ s[2] \in Digits \ {"0"}

\* strptime's pattern for %m: 1[0-2]|0[1-9]|[1-9]
MatchesMonth(s) ==
  \/ Len(s) = 2 /\ s[1] = "1" /\ s[2] \in {"0", "1", "2"}
  \/ Len(s) = 2 /\ s[1] = "0" /\ s[2] \in Digits \ {"0"}
  \/ Len(s) = 1 /\ s[1] \in Digits \ {"0"}

IsLeap(y) == (y % 4 = 0 /\ y % 100 # 0) \/ y % 400 = 0

DaysInMonth(y, m) ==
  IF m = 2 THEN (IF IsLeap(y) THEN 29 ELSE 28)
  ELSE IF m \in {4, 6, 9, 11} THEN 30 ELSE 31

\* %y: 69..99 are 1969..1999, 0..68 are 2000..2068.
CenturyOf(yy) == IF yy < 69 THEN 2000 + yy ELSE 1900 + yy

NoDate == [ok |-> FALSE, d |-> 0, m |-> 0, y |-> 0]

\* datetime.strptime(text, "%d.%m.%Y") (yearLen 4) and "%d.%m.%y" (yearLen 2):
\* the whole text must match, and the date must exist (ValueError otherwise).
Strptime(text, yearLen) ==
  LET parts == SplitOn(text, ".")
  IN IF Len(parts) # 3 THEN NoDate
     ELSE IF ~(MatchesDay(parts[1]) /\ MatchesMonth(parts[2])
               /\ Len(parts[3]) = yearLen /\ AllDigits(parts[3]))
     THEN NoDate
     ELSE LET d == IntOf(LStrip(parts[1]))
              m == IntOf(parts[2])
              y == IF yearLen = 4 THEN IntOf(parts[3]) ELSE CenturyOf(IntOf(parts[3]))
          IN IF y >= 1 /\ d <= DaysInMonth(y, m)
             THEN [ok |-> TRUE, d |-> d, m |-> m, y |-> y]
             ELSE NoDate

\* dt.strftime("%m/%d/%Y").  The C library pads a year below 1000 to four
\* digits on some platforms and not on others (pad4).
Strftime(dt, pad4) ==
  ZeroPad(DecimalOf(dt.m), 2) \o <<"/">> \o ZeroPad(DecimalOf(dt.d), 2) \o <<"/">>
    \o (IF pad4 THEN ZeroPad(DecimalOf(dt.y), 4) ELSE DecimalOf(dt.y))

\* A plausible slip: day and month left in the input's order.
convert_date_daymonth(text, pad4) ==
  LET t == Strip(text)
      full == Strptime(t, 4)
      short == Strptime(t, 2)
      dt == IF full.ok THEN full ELSE short
  IN IF dt.ok THEN Strftime([dt EXCEPT !.d = dt.m, !.m = dt.d], pad4) ELSE t

convert_date_ddmmyyyy_to_mmddyyyy(text, pad4) ==
  LET t == Strip(text)
      full == Strptime(t, 4)
      short == Strptime(t, 2)
  IN IF full.ok THEN Strftime(full, pad4)
     ELSE IF short.ok THEN Strftime(short, pad4)
     ELSE t

(***************************************************************************)
(* Arithmetic on decimal digit sequences (most significant digit first)    *)
(* and on bit sequences, for numbers wider than TLC's integers.  A small   *)
(* operand (a divisor, a factor) is an integer below 2^27.                 *)
(***************************************************************************)
DigitValues(s) == [i \in 1..Len(s) |-> DigitVal(s[i])]

DigitChars(ds) == [i \in 1..Len(ds) |-> DigitChar(ds[i])]

IsZeroDigits(ds) == \A i \in 1..Len(ds) : ds[i] = 0

RECURSIVE TrimZeros(_)
TrimZeros(ds) ==
  IF Len(ds) > 1 /\ Head(ds) = 0 THEN TrimZeros(Tail(ds)) ELSE ds

RECURSIVE Pow2(_)
Pow2(k) == IF k = 0 THEN 1 ELSE 2 * Pow2(k - 1)

RECURSIVE PowerOfTen(_)
PowerOfTen(k) == IF k = 0 THEN 1 ELSE 10 * PowerOfTen(k - 1)

Min(a, b) == IF a < b THEN a ELSE b

\* <<ds div d, ds mod d>>
RECURSIVE DecDivAcc(_, _, _, _)
DecDivAcc(ds, d, rem, acc) ==
  IF ds = <<>> THEN <<acc, rem>>
  ELSE LET cur == 10 * rem + Head(ds)
       IN DecDivAcc(Tail(ds), d, cur % d, Append(acc, cur \div d))

DecDiv(ds, d) == DecDivAcc(ds, d, 0, <<>>)

\* ds * m + carry
RECURSIVE DecMulAcc(_, _, _, _)
DecMulAcc(ds, m, carry, acc) ==
  IF ds = <<>>
  THEN (IF carry = 0 THEN acc ELSE DecMulAcc(<<>>, m, carry \div 10, <<carry % 10>> \o acc))
  ELSE LET cur == m * ds[Len(ds)] + carry
       IN DecMulAcc(SubSeq(ds, 1, Len(ds) - 1), m, cur \div 10, <<cur % 10>> \o acc)

DecMul(ds, m, add) == DecMulAcc(ds, m, add, <<>>)

\* ds + 1
RECURSIVE DecIncrement(_)
DecIncrement(ds) ==
  IF ds = <<>> THEN <<1>>
  ELSE IF ds[Len(ds)] < 9 THEN [ds EXCEPT ![Len(ds)] = @ + 1]
  ELSE DecIncrement(SubSeq(ds, 1, Len(ds) - 1)) \o <<0>>

\* The w bits of n < 2^w, most significant first.
IntBits(n, w) == [i \in 1..w |-> (n \div Pow2(w - i)) % 2]

\* The number a short bit sequence denotes.
RECURSIVE IntOfBits(_)
IntOfBits(bits) ==
  IF bits = <<>> THEN 0
  ELSE 2 * IntOfBits(SubSeq(bits, 1, Len(bits) - 1)) + bits[Len(bits)]

RECURSIVE TrimZeroBits(_)
TrimZeroBits(bits) ==
  IF bits # <<>> /\ Head(bits) = 0 THEN TrimZeroBits(Tail(bits)) ELSE bits

\* The bits of ds, most significant first, 16 at a time (with leading zeros).
RECURSIVE RawBitsOf(_)
RawBitsOf(ds) ==
  IF IsZeroDigits(ds) THEN <<>>
  ELSE LET h == DecDiv(ds, Pow2(16)) IN RawBitsOf(h[1]) \o IntBits(h[2], 16)

\* The bits of ds from its first 1 bit (none for zero).
BitsOf(ds) == TrimZeroBits(RawBitsOf(ds))

\* The decimal digits of a bit sequence, 16 bits at a time.
RECURSIVE DecOfBits(_)
DecOfBits(bits) ==
  IF bits = <<>> THEN <<0>>
  ELSE LET c == Min(16, Len(bits))
           front == SubSeq(bits, 1, Len(bits) - c)
           back == SubSeq(bits, Len(bits) - c + 1, Len(bits))
       IN TrimZeros(DecMul(DecOfBits(front), Pow2(c), IntOfBits(back)))

\* bits + 1
RECURSIVE BitsIncrement(_)
BitsIncrement(bits) ==
  IF bits = <<>> THEN <<1>>
  ELSE IF bits[Len(bits)] = 0 THEN [bits EXCEPT ![Len(bits)] = 1]
  ELSE BitsIncrement(SubSeq(bits, 1, Len(bits) - 1)) \o <<0>>

(***************************************************************************)
(* float: an IEEE 754 double is sign, mantissa bits and exponent, with the *)
(* value mant * 2^exp (mant empty for zero).                               *)
(***************************************************************************)
\* The significand of a double.
MantissaBits == 53

\* The binary expansion of ip + rem/d from its first 1 bit, extended 16
\* fraction bits at a time until the significand and the bit after it are
\* there: sig are the bits, nfrac how many of them are fraction bits, rem/d
\* (scaled) what is left.
RECURSIVE Expand(_, _, _, _)
Expand(sig, rem, d, nfrac) ==
  IF Len(sig) > MantissaBits
  THEN [sig |-> sig, rem |-> rem, nfrac |-> nfrac]
  ELSE LET cur == rem * Pow2(16)
       IN Expand(TrimZeroBits(sig \o IntBits(cur \div d, 16)), cur % d, d, nfrac + 16)

\* The double nearest to digits / 10^k (round half to even), 0 <= k <= 4.
NearestDouble(neg, digits, k) ==
  IF IsZeroDigits(digits) THEN [neg |-> neg, mant |-> <<>>, exp |-> 0]
  ELSE LET d == PowerOfTen(k)
           qr == DecDiv(digits, d)
           x == Expand(BitsOf(qr[1]), qr[2], d, 0)
           mant == SubSeq(x.sig, 1, MantissaBits)
           round == x.sig[MantissaBits + 1]
           sticky == x.rem # 0 \/ \E i \in (MantissaBits + 2)..Len(x.sig) : x.sig[i] = 1
           up == round = 1 /\ (sticky \/ mant[MantissaBits] = 1)
       IN [neg |-> neg, mant |-> IF up THEN BitsIncrement(mant) ELSE mant,
           exp |-> Len(x.sig) - MantissaBits - x.nfrac]

PositiveZero == [neg |-> FALSE, mant |-> <<>>, exp |-> 0]

\* float(clean) for a string over "-+0123456789.": ok is FALSE for ValueError.
\* The grammar: an optional sign, then digits with at most one point and at
\* least one digit.
FloatOf(clean) ==
  LET signed == clean # <<>> /\ clean[1] \in {"+", "-"}
      neg == signed /\ clean[1] = "-"
      body == IF signed THEN Tail(clean) ELSE clean
      parts == SplitOn(body, ".")
      ip == parts[1]
      fp == IF Len(parts) = 2 THEN parts[2] ELSE <<>>
  IN IF Len(parts) > 2 \/ ~AllDigits(ip) \/ ~AllDigits(fp) \/ ip \o fp = <<>>
     THEN [ok |-> FALSE, value |-> PositiveZero]
     ELSE [ok |-> TRUE, value |-> NearestDouble(neg, DigitValues(ip \o fp), Len(fp))]

\* ds / 2^k, 16 bits at a time, as <<quotient, the last bit shifted out,
\* whether a bit shifted out before it was 1>>
RECURSIVE ShiftRight(_, _, _, _)
ShiftRight(ds, k, half, sticky) ==
  IF k = 0 THEN <<ds, half, sticky>>
  ELSE LET c == Min(16, k)
           h == DecDiv(ds, Pow2(c))
       IN ShiftRight(h[1], k - c, h[2] \div Pow2(c - 1),
                     sticky \/ half = 1 \/ h[2] % Pow2(c - 1) # 0)

\* ds * 2^k
RECURSIVE ShiftLeft(_, _)
ShiftLeft(ds, k) ==
  IF k = 0 THEN ds
  ELSE LET c == Min(16, k) IN ShiftLeft(DecMul(ds, Pow2(c), 0), k - c)

\* f"{x:.2f}": x rounded to hundredths, half to even on the double's exact value.
FormatFixed2(x) ==
  LET scaled == DecOfBits(x.mant) \o <<0, 0>>
      sh == IF x.exp >= 0 THEN <<ShiftLeft(scaled, x.exp), 0, FALSE>>
            ELSE ShiftRight(scaled, 0 - x.exp, 0, FALSE)
      q == sh[1]
      up == sh[2] = 1 /\ (sh[3] \/ q[Len(q)] % 2 = 1)
      cents == DigitChars(TrimZeros(IF up THEN DecIncrement(q) ELSE q))
      padded == ZeroPad(cents, 3)
  IN (IF x.neg THEN <<"-">> ELSE <<>>)
       \o SubSeq(padded, 1, Len(padded) - 2) \o <<".">>
       \o SubSeq(padded, Len(padded) - 1, Len(padded))

(***************************************************************************)
(* parse_german_amount_to_float                                            *)
(***************************************************************************)
AllowedAmountChar(c) == c \in Digits \cup {"-", "+", ".", ","}

NotPoint(c) == c # "."

CommaToPoint(s) == [i \in 1..Len(s) |-> IF s[i] = "," THEN "." ELSE s[i]]

\* The string handed to float().
CleanAmount(text) ==
  CommaToPoint(SelectSeq(SelectSeq(Strip(text), AllowedAmountChar), NotPoint))

\* ok is FALSE when the function raises ValueError.
parse_german_amount_to_float(text) ==
  LET clean == CleanAmount(text)
  IN IF clean \in {<<>>, <<"+">>, <<"-">>}
     THEN [ok |-> TRUE, value |-> PositiveZero]
     ELSE FloatOf(clean)

(***************************************************************************)
(* extract_account_name, find_data_start_index, iter_transactions          *)
(***************************************************************************)
KONTONAME == <<"k", "o", "n", "t", "o", "n", "a", "m", "e">>
BUCHUNG == <<"b", "u", "c", "h", "u", "n", "g">>
BUCHUNG_PREFIX == <<"B", "u", "c", "h", "u", "n", "g", ";">>
BETRAG_COLUMN == <<";", "B", "e", "t", "r", "a", "g">>
MEMO_SEPARATOR == <<" ", "|", " ">>

\* name.rstrip(",")
RECURSIVE RStripCommas(_)
RStripCommas(s) ==
  IF s # <<>> /\ s[Len(s)] = "," THEN RStripCommas(SubSeq(s, 1, Len(s) - 1)) ELSE s

IsAccountLine(line) ==
  LET parts == SplitOn(line, ";")
  IN Len(parts) >= 2 /\ StartsWith(Lower(Strip(parts[1])), KONTONAME)

\* The account name of the first 'Kontoname;...' line among the first 20.
extract_account_name(lines, default) ==
  LET head == SubSeq(lines, 1, Min(20, Len(lines)))
  IN IF \E i \in 1..Len(head) : IsAccountLine(head[i])
     THEN LET k == CHOOSE i \in 1..Len(head) :
                     IsAccountLine(head[i]) /\ \A j \in 1..(i - 1) : ~IsAccountLine(head[j])
              name == RStripCommas(Strip(SplitOn(head[k], ";")[2]))
          IN IF name # <<>> THEN name ELSE default
     ELSE default

\* A plausible slip: the account name is taken from the file's Kontoname line.
AccountNameFromFile(lines, default) == extract_account_name(lines, default)

\* main's choice of the account name: always the --default-account argument.
AccountName(lines, default) == default

IsHeaderLine(line) ==
  LET header == Strip(line)
  IN StartsWith(header, BUCHUNG_PREFIX) /\ Contains(header, BETRAG_COLUMN)

\* A plausible slip: the loop keeps the last match instead of returning the first.
find_data_start_index_last(lines) ==
  IF \E i \in 1..Len(lines) : IsHeaderLine(lines[i])
  THEN CHOOSE i \in 1..Len(lines) :
         IsHeaderLine(lines[i]) /\ \A j \in (i + 1)..Len(lines) : ~IsHeaderLine(lines[j])
  ELSE -1

\* Python's idx + 1 for the 0-based idx of the first header line, which is
\* that line's 1-based position; -1 when there is none.
find_data_start_index(lines) ==
  IF \E i \in 1..Len(lines) : IsHeaderLine(lines[i])
  THEN CHOOSE i \in 1..Len(lines) :
         IsHeaderLine(lines[i]) /\ \A j \in 1..(i - 1) : ~IsHeaderLine(lines[j])
  ELSE -1

\* A plausible slip: the purpose text is appended whenever it is not empty.
BuildMemoNoDedup(buchungstext_ascii, verwendungszweck_ascii) ==
  Join((IF buchungstext_ascii # <<>> THEN <<buchungstext_ascii>> ELSE <<>>)
         \o (IF verwendungszweck_ascii # <<>> THEN <<verwendungszweck_ascii>> ELSE <<>>),
       MEMO_SEPARATOR)

\* memo_parts and their join.
BuildMemo(buchungstext_ascii, verwendungszweck_ascii) ==
  Join((IF buchungstext_ascii # <<>> THEN <<buchungstext_ascii>> ELSE <<>>)
         \o (IF verwendungszweck_ascii # <<>>
                /\ verwendungszweck_ascii # buchungstext_ascii
             THEN <<verwendungszweck_ascii>> ELSE <<>>),
       MEMO_SEPARATOR)

\* One pass of the loop body: the records (none or one) the line raw adds.
\* pad4 is the platform's strftime, see Strftime.
RowTransactions(raw, pad4) ==
  LET line == Strip(raw)
      cols == SplitOn(line, ";")
  IN IF line = <<>> THEN <<>>
     ELSE IF ~Contains(line, <<";">>) THEN <<>>
     ELSE IF Len(cols) < 8 THEN <<>>
     ELSE LET booking_date == Strip(cols[1])
              payee == Strip(cols[3])
              buchungstext == Strip(cols[4])
              verwendungszweck == Strip(cols[5])
              amount_text == Strip(cols[8])
              amount == parse_german_amount_to_float(amount_text)
          IN IF StartsWith(Lower(booking_date), BUCHUNG) THEN <<>>
             ELSE IF ~amount.ok THEN <<>>
             ELSE <<[date |-> convert_date_ddmmyyyy_to_mmddyyyy(booking_date, pad4),
                     payee |-> normalize_to_ascii(payee),
                     fi_payee |-> <<>>,
                     amount |-> FormatFixed2(amount.value),
                     memo |-> BuildMemo(normalize_to_ascii(buchungstext),
                                        normalize_to_ascii(verwendungszweck))]>>

\* A plausible slip: a row whose amount does not parse ends the loop.
RECURSIVE RowsUntilBadAmount(_, _)
RowsUntilBadAmount(rows, pad4) ==
  IF rows = <<>> THEN <<>>
  ELSE LET cols == SplitOn(Strip(Head(rows)), ";")
       IN IF Len(cols) >= 8 /\ ~StartsWith(Lower(Strip(cols[1])), BUCHUNG)
             /\ ~parse_german_amount_to_float(Strip(cols[8])).ok
          THEN <<>>
          ELSE RowTransactions(Head(rows), pad4) \o RowsUntilBadAmount(Tail(rows), pad4)

\* The loop over lines[start:].
RowsTransactions(rows, pad4) ==
  Concat([i \in 1..Len(rows) |-> RowTransactions(rows[i], pad4)])

\* A plausible slip: no header gives an empty list instead of the error.
iter_transactions_noraise(lines, pad4) ==
  LET start == find_data_start_index(lines)
  IN [raised |-> FALSE,
      transactions |-> IF start = -1 THEN <<>>
                       ELSE RowsTransactions(DropTo(lines, start + 1), pad4)]

\* raised is TRUE for the RuntimeError.
iter_transactions(lines, pad4) ==
  LET start == find_data_start_index(lines)
  IN IF start = -1
     THEN [raised |-> TRUE, transactions |-> <<>>]
     ELSE [raised |-> FALSE,
           transactions |-> RowsTransactions(DropTo(lines, start + 1), pad4)]

(***************************************************************************)
(* write_quicken_csv: csv.writer with the default (excel) dialect          *)
(***************************************************************************)
COLUMNS ==
  << <<"D", "a", "t", "e">>, <<"P", "a", "y", "e", "e">>,
     <<"F", "I", " ", "P", "a", "y", "e", "e">>, <<"A", "m", "o", "u", "n", "t">>,
     <<"D", "e", "b", "i", "t", "/", "C", "r", "e", "d", "i", "t">>,
     <<"C", "a", "t", "e", "g", "o", "r", "y">>, <<"A", "c", "c", "o", "u", "n", "t">>,
     <<"T", "a", "g">>, <<"M", "e", "m", "o">>, <<"C", "h", "k", "n", "u", "m">> >>

LINE_TERMINATOR == <<"\r", "\n">>

\* QUOTE_MINIMAL: a field is quoted when it holds the delimiter, the quote
\* character or a character of the line terminator.
NeedsQuotes(field) == \E i \in 1..Len(field) : field[i] \in {",", "\"", "\r", "\n"}

CsvField(field) ==
  IF NeedsQuotes(field)
  THEN <<"\"">>
         \o Concat([i \in 1..Len(field) |->
                      IF field[i] = "\"" THEN <<"\"", "\"">> ELSE <<field[i]>>])
         \o <<"\"">>
  ELSE field

\* writer.writerow(fields): the text written, for two fields or more.
CsvRow(fields) ==
  Join([i \in 1..Len(fields) |-> CsvField(fields[i])], <<",">>) \o LINE_TERMINATOR

\* The list write_quicken_csv hands to writerow for one transaction.
RowFields(tx, account) ==
  <<tx.date, tx.payee, tx.fi_payee, tx.amount, <<>>, <<>>, account, <<>>, tx.memo, <<>>>>

(***************************************************************************)
(* The inputs of a run                                                     *)
(***************************************************************************)
\* The table header (shortened column names).
HEADER_LINE ==
  <<"B", "u", "c", "h", "u", "n", "g", ";", "W", ";", "A", ";", "B", ";",
    "V", ";", "S", ";", "W", ";", "B", "e", "t", "r", "a", "g", ";", "W">>

\* The account declaration of an export's preamble.
ACCOUNT_LINE ==
  <<"K", "o", "n", "t", "o", "n", "a", "m", "e", ";", "G", "i", "r", "o">>

BLANK_LINE ==
  <<" ", " ">>

\* Data rows: date;value date;payee;type;purpose;balance;currency;amount;currency
ROW_RENT ==
  <<"1", "4", ".", "0", "8", ".", "2", "0", "2", "5", ";", "v", ";", "M",
    u_uml, ",", "X", ";", "L", "a", ";", "B", u_uml, " ", "r", "o", ";",
    "s", ";", "E", "U", "R", ";", "-", "1", ".", "7", "7", "0", ",", "0",
    "0", ";", "E", "U", "R">>

\* Type and purpose equal once normalized; a date that does not parse.
ROW_DUP ==
  <<"x", ";", "v", ";", "P", ";", U_UML, ";", "U", "e", ";", "s", ";",
    "E", "U", "R", ";", "2", "5", "0", ",", "0", "0">>

\* An empty booking date, an empty type.
ROW_NODATE ==
  <<";", "v", ";", ";", ";", "Z", ";", "s", ";", "E", "U", "R", ";", "5",
    ",", "0", "0", ";", "E", "U", "R">>

\* A two-digit year, an empty purpose, an amount without digits.
ROW_SHORTYEAR ==
  <<"1", ".", "2", ".", "2", "5", ";", "v", ";", "M", ";", "L", ";", ";",
    "s", ";", "E", "U", "R", ";", "a", "b", "c", ";", "E", "U", "R">>

\* Eight fields, every text empty, a year below 1000.
ROW_BARE ==
  <<"3", ".", "1", ".", "0", "9", "9", "9", ";", ";", ";", ";", ";", ";",
    ";", "7">>

\* An amount float() rejects.
ROW_BADAMOUNT ==
  <<"1", ".", "2", ".", "2", "0", "2", "5", ";", "v", ";", "P", ";", "L",
    ";", "Z", ";", "s", ";", "E", "U", "R", ";", "1", ",", "2", ",", "3">>

\* The header label again, in lower case.
ROW_LABEL ==
  <<"b", "u", "c", "h", "u", "n", "g", ";", "v", ";", "P", ";", "L", ";",
    "Z", ";", "s", ";", "E", "U", "R", ";", "5", ",", "0", "0">>

LinePool ==
  {HEADER_LINE, ACCOUNT_LINE, BLANK_LINE, ROW_RENT, ROW_DUP, ROW_NODATE,
   ROW_SHORTYEAR, ROW_BARE, ROW_BADAMOUNT, ROW_LABEL}

\* The longest input file.
MaxLines == 3

\* The sequences over S of length at most n.
SeqsUpTo(S, n) == UNION {[1..k -> S] : k \in 0..n}

\* The values of --default-account: the default, and one that needs quoting.
ACCOUNT_DEFAULT ==
  <<"I", "N", "G", " ", "C", "h", "e", "c", "k", "i", "n", "g">>

ACCOUNT_QUOTED ==
  <<"G", ",", "\"", "1", "\"">>

\* The output path before the run: nothing there, or an older file.
NoFile == [exists |-> FALSE, rows |-> <<>>]
OldFile == [exists |-> TRUE, rows |-> << <<"o", "l", "d", "\n">> >>]

\* The command lines and platforms a run is checked with.
Environments ==
  {[account |-> ACCOUNT_DEFAULT, file |-> NoFile, pad4 |-> FALSE],
   [account |-> ACCOUNT_QUOTED, file |-> OldFile, pad4 |-> TRUE]}

(***************************************************************************)
(* State                                                                   *)
(***************************************************************************)
VARIABLES
  input,            \* the decoded lines of args.input
  default_account,  \* args.default_account
  outFileAtStart,   \* the file at args.output when the run starts
  pad4,             \* the platform: strftime pads a year below 1000
  pc,               \* where main is
  lines,            \* main's lines
  account_name,     \* main's account_name
  transactions,     \* main's transactions
  outFile,          \* the file at args.output: the writes it holds
  fp,               \* write_quicken_csv's file object: none, open, closed
  row,              \* the position of write_quicken_csv's loop
  stdout,           \* what was printed to standard output
  stderr,           \* what was printed to standard error
  arg,              \* a single function's argument (the function specifications)
  ret               \* and its result

vars ==
  <<input, default_account, outFileAtStart, pad4, pc, lines, account_name,
    transactions, outFile, fp, row, stdout, stderr, arg, ret>>

env == <<input, default_account, outFileAtStart, pad4>>

unit == <<arg, ret>>

NotCalled == [called |-> FALSE]

\* main's variables before main runs.
MainAtStart ==
  /\ pc = "start"
  /\ lines = <<>>
  /\ account_name = <<>>
  /\ transactions = <<>>
  /\ outFile = outFileAtStart
  /\ fp = "none"
  /\ row = 0
  /\ stdout = <<>>
  /\ stderr = <<>>

Init ==
  /\ input \in SeqsUpTo(LinePool, MaxLines)
  /\ \E e \in Environments :
       /\ default_account = e.account
       /\ outFileAtStart = e.file
       /\ pad4 = e.pad4
  /\ MainAtStart
  /\ arg = <<>>
  /\ ret = NotCalled

(***************************************************************************)
(* main                                                                    *)
(***************************************************************************)
\* lines = try_read_text(args.input)
ReadText ==
  /\ pc = "start"
  /\ lines' = input
  /\ pc' = "read"
  /\ UNCHANGED <<env, unit, account_name, transactions, outFile, fp, row, stdout, stderr>>

\* account_name = args.default_account
ChooseAccount ==
  /\ pc = "read"
  /\ account_name' = AccountName(lines, default_account)
  /\ pc' = "account"
  /\ UNCHANGED <<env, unit, lines, transactions, outFile, fp, row, stdout, stderr>>

\* transactions = iter_transactions(lines); its RuntimeError ends the run
\* with a traceback.
IterTransactions ==
  /\ pc = "account"
  /\ LET r == iter_transactions(lines, pad4)
     IN IF r.raised
        THEN /\ pc' = "aborted"
             /\ stderr' = Append(stderr, "Traceback")
             /\ UNCHANGED transactions
        ELSE /\ pc' = "parsed"
             /\ transactions' = r.transactions
             /\ UNCHANGED stderr
  /\ UNCHANGED <<env, unit, lines, account_name, outFile, fp, row, stdout>>

\* A plausible slip: the warning ends the run.
WarnAndStop ==
  /\ pc = "parsed"
  /\ stderr' = IF transactions = <<>> THEN Append(stderr, "Warning") ELSE stderr
  /\ pc' = IF transactions = <<>> THEN "done" ELSE "write"
  /\ UNCHANGED <<env, unit, lines, account_name, transactions, outFile, fp, row, stdout>>

\* if not transactions: print("Warning: ...", file=sys.stderr)
WarnIfEmpty ==
  /\ pc = "parsed"
  /\ stderr' = IF transactions = <<>> THEN Append(stderr, "Warning") ELSE stderr
  /\ pc' = "write"
  /\ UNCHANGED <<env, unit, lines, account_name, transactions, outFile, fp, row, stdout>>

\* with path.open("w", ...) as fp: the file is created or truncated.
OpenOutput ==
  /\ pc = "write"
  /\ outFile' = [exists |-> TRUE, rows |-> <<>>]
  /\ fp' = "open"
  /\ pc' = "header"
  /\ UNCHANGED <<env, unit, lines, account_name, transactions, row, stdout, stderr>>

\* writer.writerow([...the ten column names...])
WriteHeader ==
  /\ pc = "header"
  /\ outFile' = [outFile EXCEPT !.rows = Append(@, CsvRow(COLUMNS))]
  /\ row' = 1
  /\ pc' = "rows"
  /\ UNCHANGED <<env, unit, lines, account_name, transactions, fp, stdout, stderr>>

\* for tx in transactions: writer.writerow([...])
WriteRow ==
  /\ pc = "rows"
  /\ row <= Len(transactions)
  /\ outFile' = [outFile EXCEPT
                   !.rows = Append(@, CsvRow(RowFields(transactions[row], account_name)))]
  /\ row' = row + 1
  /\ UNCHANGED <<env, unit, pc, lines, account_name, transactions, fp, stdout, stderr>>

\* The end of the with block.
CloseOutput ==
  /\ pc = "rows"
  /\ row > Len(transactions)
  /\ fp' = "closed"
  /\ pc' = "print"
  /\ UNCHANGED <<env, unit, lines, account_name, transactions, outFile, row, stdout, stderr>>

\* print(f"Wrote {len(transactions)} transactions to {args.output}")
PrintCount ==
  /\ pc = "print"
  /\ stdout' = Append(stdout, [wrote |-> Len(transactions)])
  /\ pc' = "done"
  /\ UNCHANGED <<env, unit, lines, account_name, transactions, outFile, fp, row, stderr>>

Next ==
  \/ ReadText
  \/ ChooseAccount
  \/ IterTransactions
  \/ WarnIfEmpty
  \/ OpenOutput
  \/ WriteHeader
  \/ WriteRow
  \/ CloseOutput
  \/ PrintCount

Spec == Init /\ [][Next]_vars

(***************************************************************************)
(* The functions on their own: each specification draws one argument and   *)
(* calls one function, main never runs.                                    *)
(***************************************************************************)
MainIdle ==
  /\ input = <<>>
  /\ default_account = ACCOUNT_DEFAULT
  /\ outFileAtStart = NoFile
  /\ MainAtStart

\* Dates: day, month and year numbers written in one of these styles, with
\* or without whitespace around.
DayPool == {0, 1, 14, 28, 29, 30, 31, 32}
MonthPool == {0, 1, 2, 4, 8, 12, 13}
YearPool == {999, 1900, 1969, 2000, 2024, 2025}
DateStyles == {"DD.MM.YYYY", "DD.MM.YY", "D.M.YYYY", "DD/MM/YYYY"}

RenderDate(d, m, y, style) ==
  CASE style = "DD.MM.YYYY" ->
         ZeroPad(DecimalOf(d), 2) \o <<".">> \o ZeroPad(DecimalOf(m), 2) \o <<".">>
           \o ZeroPad(DecimalOf(y), 4)
    [] style = "DD.MM.YY" ->
         ZeroPad(DecimalOf(d), 2) \o <<".">> \o ZeroPad(DecimalOf(m), 2) \o <<".">>
           \o ZeroPad(DecimalOf(y % 100), 2)
    [] style = "D.M.YYYY" ->
         DecimalOf(d) \o <<".">> \o DecimalOf(m) \o <<".">> \o ZeroPad(DecimalOf(y), 4)
    [] style = "DD/MM/YYYY" ->
         ZeroPad(DecimalOf(d), 2) \o <<"/">> \o ZeroPad(DecimalOf(m), 2) \o <<"/">>
           \o ZeroPad(DecimalOf(y), 4)

InitDate ==
  /\ MainIdle
  /\ pad4 \in BOOLEAN
  /\ \E d \in DayPool, m \in MonthPool, y \in YearPool, style \in DateStyles,
        lead \in {<<>>, <<" ">>}, trail \in {<<>>, <<"\t">>} :
       arg = [d |-> d, m |-> m, y |-> y, style |-> style,
              text |-> lead \o RenderDate(d, m, y, style) \o trail]
  /\ ret = NotCalled

CallConvertDate ==
  /\ ret = NotCalled
  /\ ret' = [called |-> TRUE, value |-> convert_date_ddmmyyyy_to_mmddyyyy(arg.text, pad4)]
  /\ UNCHANGED <<env, arg, pc, lines, account_name, transactions, outFile, fp, row,
                 stdout, stderr>>

SpecDate == InitDate /\ [][CallConvertDate]_vars

\* Amounts: a sign, one to three digits, groups of three digits, two decimals.
SignPool == {<<>>, <<"-">>, <<"+">>}
FirstPool == {<<"0">>, <<"1">>, <<"7", "0">>, <<"2", "5", "0">>}
GroupPool == {<<"0", "0", "0">>, <<"7", "7", "0">>}
CentsPool == {<<"0", "0">>, <<"0", "1">>, <<"9", "9">>}

\* The most groups of thousands.
MaxGroups == 4

InitAmount ==
  /\ MainIdle
  /\ pad4 = FALSE
  /\ \E sign \in SignPool, first \in FirstPool, cents \in CentsPool,
        groups \in SeqsUpTo(GroupPool, MaxGroups) :
       arg = [sign |-> sign, first |-> first, groups |-> groups, cents |-> cents,
              text |-> sign \o Join(<<first>> \o groups, <<".">>) \o <<",">> \o cents]
  /\ ret = NotCalled

\* amount = parse_german_amount_to_float(amount_text), then f"{amount:.2f}"
CallParseAmount ==
  /\ ret = NotCalled
  /\ LET amount == parse_german_amount_to_float(arg.text)
     IN ret' = [called |-> TRUE, ok |-> amount.ok,
                amount |-> IF amount.ok THEN FormatFixed2(amount.value) ELSE <<>>]
  /\ UNCHANGED <<env, arg, pc, lines, account_name, transactions, outFile, fp, row,
                 stdout, stderr>>

SpecAmount == InitAmount /\ [][CallParseAmount]_vars

\* Texts: every string of these characters up to a length.
TextAlphabet == {"a", "B", " ", "\t", u_uml, ESZETT, e_acute, EURO, NBSP}

\* The longest text.
MaxText == 3

InitNormalize ==
  /\ MainIdle
  /\ pad4 = FALSE
  /\ \E text \in SeqsUpTo(TextAlphabet, MaxText) : arg = [text |-> text]
  /\ ret = NotCalled

\* normalize_to_ascii(text), and normalize_to_ascii of its result
CallNormalize ==
  /\ ret = NotCalled
  /\ LET once == normalize_to_ascii(arg.text)
     IN ret' = [called |-> TRUE, value |-> once, again |-> normalize_to_ascii(once)]
  /\ UNCHANGED <<env, arg, pc, lines, account_name, transactions, outFile, fp, row,
                 stdout, stderr>>

SpecNormalize == InitNormalize /\ [][CallNormalize]_vars

\* Buffers for the header scan: lines that match, nearly match or do not.
FIND_HEADER == <<"B", "u", "c", "h", "u", "n", "g", ";", "B", "e", "t", "r", "a", "g">>
FIND_INDENTED == <<" ", "B", "u", "c", "h", "u", "n", "g", ";", "x", ";", "B", "e", "t", "r", "a", "g">>
FIND_NO_AMOUNT == <<"B", "u", "c", "h", "u", "n", "g", ";", "x">>
FIND_NO_PREFIX == <<"x", ";", "B", "e", "t", "r", "a", "g">>
FIND_INNER == <<"x", "B", "u", "c", "h", "u", "n", "g", ";", ";", "B", "e", "t", "r", "a", "g">>

FindPool == {FIND_HEADER, FIND_INDENTED, FIND_NO_AMOUNT, FIND_NO_PREFIX, FIND_INNER, <<>>}

\* The longest buffer of the header scan.
MaxFindLines == 3

InitFind ==
  /\ MainIdle
  /\ pad4 = FALSE
  /\ \E buffer \in SeqsUpTo(FindPool, MaxFindLines) : arg = [lines |-> buffer]
  /\ ret = NotCalled

CallFindDataStart ==
  /\ ret = NotCalled
  /\ ret' = [called |-> TRUE, value |-> find_data_start_index(arg.lines)]
  /\ UNCHANGED <<env, arg, pc, lines, account_name, transactions, outFile, fp, row,
                 stdout, stderr>>

SpecFind == InitFind /\ [][CallFindDataStart]_vars

(***************************************************************************)
(* What the claims speak of                                                *)
(***************************************************************************)
\* A line that starts with 'Buchung;' and contains ';Betrag', as written.
LiteralHeader(line) == StartsWith(line, BUCHUNG_PREFIX) /\ Contains(line, BETRAG_COLUMN)

\* The same of the line without the whitespace around it.
StrippedHeader(line) == LiteralHeader(Strip(line))

HeaderFound(buffer) == \E i \in 1..Len(buffer) : StrippedHeader(buffer[i])

\* The lines after the first header of a buffer that has one.
AfterHeader(buffer) ==
  LET k == CHOOSE i \in 1..Len(buffer) :
             StrippedHeader(buffer[i]) /\ \A j \in 1..(i - 1) : ~StrippedHeader(buffer[j])
  IN SubSeq(buffer, k + 1, Len(buffer))

\* The i-th semicolon-delimited field of a line, trimmed.
Field(raw, i) == Strip(SplitOn(Strip(raw), ";")[i])

\* A line that yields a record: not blank, eight fields or more, a first
\* field that is not the header label, an amount that parses.
Qualifies(raw) ==
  /\ Strip(raw) # <<>>
  /\ Len(SplitOn(Strip(raw), ";")) >= 8
  /\ ~StartsWith(Lower(Field(raw, 1)), BUCHUNG)
  /\ parse_german_amount_to_float(Field(raw, 8)).ok

\* The memo of a line: type, then purpose unless it is empty or the same.
ExpectedMemo(raw) ==
  LET type == normalize_to_ascii(Field(raw, 4))
      purpose == normalize_to_ascii(Field(raw, 5))
  IN IF purpose = <<>> \/ purpose = type THEN type
     ELSE IF type = <<>> THEN purpose
     ELSE type \o <<" ", "|", " ">> \o purpose

ExpectedRecord(raw) ==
  [date |-> convert_date_ddmmyyyy_to_mmddyyyy(Field(raw, 1), pad4),
   payee |-> normalize_to_ascii(Field(raw, 3)),
   fi_payee |-> <<>>,
   amount |-> FormatFixed2(parse_german_amount_to_float(Field(raw, 8)).value),
   memo |-> ExpectedMemo(raw)]

\* The lines of the run's input that yield a record, in order.
QualifyingLines == SelectSeq(AfterHeader(input), Qualifies)

\* main is past iter_transactions, which returned.
Parsed == pc \in {"parsed", "write", "header", "rows", "print", "done"}

\* csv.reader on one written record: the fields of rest, which starts a field.
RECURSIVE ReadCsvFields(_)
ReadCsvFields(rest) ==
  IF rest # <<>> /\ rest[1] = "\""
  THEN LET Closes(j) ==
             /\ rest[j] = "\""
             /\ Cardinality({i \in 2..(j - 1) : rest[i] = "\""}) % 2 = 0
             /\ (j = Len(rest) \/ rest[j + 1] # "\"")
       IN IF \E j \in 2..Len(rest) : Closes(j)
          THEN LET k == CHOOSE j \in 2..Len(rest) :
                          Closes(j) /\ \A h \in 2..(j - 1) : ~Closes(h)
                   quoted == SubSeq(rest, 2, k - 1)
                   \* every second quote of a doubled pair is dropped
                   field == SelectSeq(
                              [i \in 1..Len(quoted) |->
                                 IF quoted[i] = "\""
                                    /\ Cardinality({h \in 1..i : quoted[h] = "\""}) % 2 = 0
                                 THEN "" ELSE quoted[i]],
                              LAMBDA c : c # "")
               IN IF k = Len(rest) THEN <<field>>
                  ELSE IF rest[k + 1] = "," THEN <<field>> \o ReadCsvFields(DropTo(rest, k + 2))
                  ELSE <<field, <<"?">>>>
          ELSE <<>>
  ELSE IF \E i \in 1..Len(rest) : rest[i] = ","
  THEN LET k == CHOOSE i \in 1..Len(rest) :
                  rest[i] = "," /\ \A h \in 1..(i - 1) : rest[h] # ","
       IN <<SubSeq(rest, 1, k - 1)>> \o ReadCsvFields(DropTo(rest, k + 1))
  ELSE <<rest>>

\* The fields of one written record (none when it does not end the line).
ReadCsvRow(text) ==
  IF Len(text) >= 2 /\ SubSeq(text, Len(text) - 1, Len(text)) = <<"\r", "\n">>
  THEN ReadCsvFields(SubSeq(text, 1, Len(text) - 2))
  ELSE <<>>

(***************************************************************************)
(* Claims about a run                                                      *)
(***************************************************************************)
\* C1: every data row written has the ten fields Date, Payee, FI Payee,
\* Amount, Debit/Credit, Category, Account, Tag, Memo, Chknum in this order;
\* the seventh is the --default-account value verbatim, whatever
\* 'Kontoname;...' line the input holds; fields 3, 5, 6, 8 and 10 are empty.
C1_RowsCarryDefaultAccount ==
  fp # "none" =>
    \A i \in 2..Len(outFile.rows) :
      LET tx == transactions[i - 1]
      IN ReadCsvRow(outFile.rows[i]) =
           <<tx.date, tx.payee, <<>>, tx.amount, <<>>, <<>>, default_account, <<>>,
             tx.memo, <<>>>>

\* A run that wrote a data row for an input with a 'Kontoname;...' line and
\* an account name that needs quoting.
C1_Witness ==
  /\ pc = "done"
  /\ Len(outFile.rows) >= 2
  /\ default_account = ACCOUNT_QUOTED
  /\ \E i \in 1..Len(input) : input[i] = ACCOUNT_LINE

\* C6: when the header is found, iter_transactions returns without raising,
\* and its records are, in input order, exactly one per line after the
\* header that is not blank, has eight fields or more, does not repeat the
\* header label and has an amount that parses; no other line yields a record
\* or stops the lines after it from being processed.
C6_OneRecordPerQualifyingLine ==
  /\ (HeaderFound(input) /\ pc \notin {"start", "read", "account"}) => pc # "aborted"
  /\ (HeaderFound(input) /\ pc = "parsed") =>
       LET q == QualifyingLines
       IN transactions = [k \in 1..Len(q) |-> ExpectedRecord(q[k])]

\* A record follows a row whose amount does not parse.
C6_Witness ==
  /\ pc = "parsed"
  /\ input = <<HEADER_LINE, ROW_BADAMOUNT, ROW_RENT>>
  /\ Len(transactions) = 1

\* C7: every record's memo is the normalized type text joined with the
\* normalized purpose text by ' | ', the purpose left out when it is empty
\* or equals the type once normalized; no separator when either is absent,
\* and an empty memo when both are.
C7_MemoJoinsTypeAndPurpose ==
  pc = "parsed" =>
    LET q == QualifyingLines
    IN /\ Len(transactions) = Len(q)
       /\ \A k \in 1..Len(transactions) : transactions[k].memo = ExpectedMemo(q[k])

\* A record whose purpose equals its type once normalized.
C7_Witness ==
  /\ pc = "parsed"
  /\ input = <<HEADER_LINE, ROW_DUP, ROW_NODATE>>
  /\ transactions[1].memo = <<"U", "e">>
  /\ transactions[2].memo = <<"Z">>

\* C8: when the header is found and no transaction is parsed the run still
\* completes: the warning comes first, then the output file is written with
\* the header row alone, and only then the success message with count 0; in
\* every successful run the count printed is the number of data rows written.
C8_EmptyRunWritesHeaderThenReports ==
  /\ (HeaderFound(input) /\ Parsed /\ transactions = <<>>) =>
       /\ pc = "done" \/ ENABLED Next
       /\ fp # "none" => stderr = <<"Warning">>
       /\ stdout # <<>> => fp = "closed"
       /\ pc = "done" =>
            /\ outFile.exists
            /\ Len(outFile.rows) = 1
            /\ ReadCsvRow(outFile.rows[1]) = COLUMNS
            /\ stdout = <<[wrote |-> 0]>>
  /\ pc = "done" => stdout = <<[wrote |-> Len(outFile.rows) - 1]>> /\ fp = "closed"
  /\ stdout # <<>> => pc = "done"

\* A finished run without transactions, over an older output file.
C8_Witness ==
  /\ pc = "done"
  /\ HeaderFound(input)
  /\ transactions = <<>>
  /\ outFileAtStart = OldFile
  /\ stdout = <<[wrote |-> 0]>>

\* C9: when no line matches the header, iter_transactions raises and the run
\* aborts before the output file is opened: the output path is as it was,
\* no header row is written and no success message is printed.
C9_NoHeaderLeavesOutputAlone ==
  ~HeaderFound(input) =>
    /\ pc \in {"start", "read", "account", "aborted"}
    /\ fp = "none"
    /\ outFile = outFileAtStart
    /\ stdout = <<>>

\* An aborted run whose output path held an older file.
C9_Witness ==
  /\ pc = "aborted"
  /\ outFileAtStart = OldFile
  /\ outFile = OldFile
  /\ \E i \in 1..Len(input) : input[i] = ROW_RENT

\* C10: every record iter_transactions returns has a non-empty amount and a
\* non-empty date.
C10_DateAndAmountNotEmpty ==
  \A k \in 1..Len(transactions) :
    transactions[k].amount # <<>> /\ transactions[k].date # <<>>

(***************************************************************************)
(* Claims about one function                                               *)
(***************************************************************************)
\* The days of a month of the Gregorian calendar.
CalendarDays(y, m) ==
  IF m = 2 /\ ((y % 4 = 0 /\ y % 100 # 0) \/ y % 400 = 0) THEN 29
  ELSE <<31, 28, 31, 30, 31, 30, 31, 31, 30, 31, 30, 31>>[m]

ValidDate(d, m, y) == y >= 1 /\ m \in 1..12 /\ d \in 1..CalendarDays(y, m)

\* MM/DD/YYYY, and the same with the year as it is.
MonthDayYear(d, m, y) ==
  ZeroPad(DecimalOf(m), 2) \o <<"/">> \o ZeroPad(DecimalOf(d), 2) \o <<"/">>
    \o ZeroPad(DecimalOf(y), 4)

MonthDayBareYear(d, m, y) ==
  ZeroPad(DecimalOf(m), 2) \o <<"/">> \o ZeroPad(DecimalOf(d), 2) \o <<"/">> \o DecimalOf(y)

\* The years a two-digit year may stand for.
YearsOf(yy) == {1900 + yy, 2000 + yy}

\* Neither format parses the text (as the function reads it, trimmed).
Unparsed(text) == ~Strptime(Strip(text), 4).ok /\ ~Strptime(Strip(text), 2).ok

\* The two-digit-year part of C2, which stands as claimed.
ShortYearConverted ==
  (arg.style = "DD.MM.YY" /\ \E y \in YearsOf(arg.y % 100) : ValidDate(arg.d, arg.m, y)) =>
    \E y \in YearsOf(arg.y % 100) :
      ValidDate(arg.d, arg.m, y) /\ ret.value = MonthDayYear(arg.d, arg.m, y)

RECURSIVE TrimZeroChars(_)
TrimZeroChars(s) ==
  IF Len(s) > 1 /\ Head(s) = "0" THEN TrimZeroChars(Tail(s)) ELSE s

\* The amount of the argument as a decimal: the digits without their
\* separators, a point, the two decimals.
ExactAmount == TrimZeroChars(arg.first \o Concat(arg.groups)) \o <<".">> \o arg.cents

\* C3: an amount written as an optional sign, one to three digits, groups of
\* '.' and three digits, ',' and two digits parses to the decimal it denotes,
\* and the amount field is that value, signed, with two fractional digits.
C3_AmountExact ==
  ret.called =>
    /\ ret.ok
    /\ \/ ret.amount = (IF arg.sign = <<"-">> THEN <<"-">> ELSE <<>>) \o ExactAmount
       \/ /\ ret.amount = ExactAmount
          /\ \A i \in 1..Len(ExactAmount) : ExactAmount[i] \in {"0", "."}

AllAscii(text) == \A i \in 1..Len(text) : IsAscii(text[i])

\* Words separated by single blanks, nothing before or after.
SingleSpaced(text) ==
  /\ \A i \in 1..Len(text) : IsSpace(text[i]) => text[i] = " "
  /\ text # <<>> => text[1] # " " /\ text[Len(text)] # " "
  /\ \A i \in 1..(Len(text) - 1) : ~(text[i] = " " /\ text[i + 1] = " ")

\* C4 as claimed: an ASCII string comes back unchanged, and normalizing
\* twice is normalizing once.
C4_AsClaimed ==
  ret.called =>
    /\ AllAscii(arg.text) => ret.value = arg.text
    /\ ret.again = ret.value

\* C4 as amended: an ASCII string whose words are separated by single
\* blanks, with no whitespace around it, comes back unchanged; normalizing
\* twice is normalizing once.
C4_NormalizeIdempotent ==
  ret.called =>
    /\ (AllAscii(arg.text) /\ SingleSpaced(arg.text)) => ret.value = arg.text
    /\ ret.again = ret.value

\* Two ASCII words with a blank between them, normalized.
C4_Witness ==
  /\ ret.called
  /\ arg.text = <<"a", " ", "B">>
  /\ ret.value = <<"a", " ", "B">>

\* The position after the first line that P holds of, counted as Python
\* counts (its 0-based index plus one), for a buffer with such a line.
AfterFirst(buffer, P(_)) ==
  CHOOSE i \in 1..Len(buffer) : P(buffer[i]) /\ \A j \in 1..(i - 1) : ~P(buffer[j])

LiteralPrefix(line) == StartsWith(line, BUCHUNG_PREFIX)

StrippedPrefix(line) == StartsWith(Strip(line), BUCHUNG_PREFIX)

\* C5 as claimed: the result is i + 1 for the first line i that starts with
\* 'Buchung;' and contains ';Betrag', and -1 for a buffer in which no line
\* starts with 'Buchung;'.
C5_AsClaimed ==
  ret.called =>
    /\ (\E i \in 1..Len(arg.lines) : LiteralHeader(arg.lines[i])) =>
         ret.value = AfterFirst(arg.lines, LiteralHeader)
    /\ (\A i \in 1..Len(arg.lines) : ~LiteralPrefix(arg.lines[i])) => ret.value = -1

\* C5 as amended: the same of the lines without the whitespace around them.
C5_FirstHeader ==
  ret.called =>
    /\ (\E i \in 1..Len(arg.lines) : StrippedHeader(arg.lines[i])) =>
         ret.value = AfterFirst(arg.lines, StrippedHeader)
    /\ (\A i \in 1..Len(arg.lines) : ~StrippedPrefix(arg.lines[i])) => ret.value = -1

\* The first of two headers, after a line without the amount column.
C5_Witness ==
  /\ ret.called
  /\ arg.lines = <<FIND_NO_AMOUNT, FIND_INDENTED, FIND_HEADER>>
  /\ ret.value = 2

=============================================================================
